---------------------------- MODULE Spec2Model ----------------------------
(***************************************************************************)
(* Model of the memorial site's serverless functions: the upload-          *)
(* credential handler, the two push-upload handlers (inline multipart      *)
(* parser and busboy helper) and the gallery handler, with the earlier     *)
(* versions of the upload-credential and gallery handlers.                 *)
(*                                                                         *)
(* One behaviour is one invocation of one handler: the handlers keep no    *)
(* state between invocations.  The upload-credential handler may be        *)
(* invoked again once it has answered, so that the keys two requests       *)
(* resolve to can be compared.  An action is the code between two awaits.  *)
(* Text (keys, filenames, header values, request bodies) is a              *)
(* sequence of one-character strings, so that the string operations of the *)
(* code are computed as the code computes them.                            *)
(***************************************************************************)
EXTENDS Integers, Sequences, FiniteSets, TLC

VARIABLES
    config,     \* process.env: which of the three R2 credentials are set
    bucket,     \* the storage service's objects, in listing (key) order
    handler,    \* which exports.handler this invocation runs
    pc,         \* the await the invocation is suspended at
    event,      \* the request
    response,   \* what the handler returned (<< >> until it returns)
    calls,      \* the storage-service operations invoked so far
    faults,     \* the storage-service operations that failed
    gal,        \* locals of the gallery handler
    pre,        \* locals of the upload-credential handler
    up,         \* locals of the push-upload handlers
    served      \* the object keys earlier upload-credential requests got

vars == <<config, bucket, handler, pc, event, response, calls, faults, gal,
          pre, up, served>>

---------------------------------------------------------------------------
(* Bounds of the model *)

\* small buckets hold at most this many of the keys of KeyPool
MaxSmallBucket == 3
\* large buckets hold from SampleSize - 1 to SampleSize + MaxOver media objects
MaxOver == 1
\* a listing page holds at most this many objects, or all that remain
MaxPageLen == 2
\* Math.random() returns k / RandomLevels, k in 0 .. RandomLevels - 1
RandomLevels == 3
\* a read-credential issuance may overtake at most MaxReorder - 1 earlier ones
MaxReorder == 3

(* Constants of the program *)

\* shuffledFiles.slice(0, 50)
SampleSize == 50
\* MaxKeys: 1000
MaxKeys == 1000
\* expiresIn: 3600
ExpiresIn == 3600

---------------------------------------------------------------------------
(* JavaScript values and string operations *)

\* null / undefined
Null == << >>

\* undefined where the code tells it from the empty string: a value that
\* no text equals
Undefined == <<"undefined">>

Min(S) == CHOOSE x \in S : \A y \in S : x <= y

Max(S) == CHOOSE x \in S : \A y \in S : x >= y

UpperCase == <<"A","B","C","D","E","F","G","H","I","J","K","L","M","N","O","P","Q","R","S","T","U","V","W","X","Y","Z">>

LowerCase == <<"a","b","c","d","e","f","g","h","i","j","k","l","m","n","o","p","q","r","s","t","u","v","w","x","y","z">>

Digits == <<"0","1","2","3","4","5","6","7","8","9">>

Range(s) == {s[i] : i \in 1..Len(s)}

\* String.prototype.toLowerCase, one character
lowerChar(c) ==
    IF c \in Range(UpperCase)
    THEN LowerCase[CHOOSE i \in 1..Len(UpperCase) : UpperCase[i] = c]
    ELSE c

\* String.prototype.toLowerCase
toLowerCase(s) == [i \in 1..Len(s) |-> lowerChar(s[i])]

\* String.prototype.slice / Buffer.prototype.slice (0-based, end exclusive,
\* a negative index counts from the end)
slice(s, from, to) ==
    LET n == Len(s)
        a == IF from < 0 THEN Max({n + from, 0}) ELSE Min({from, n})
        b == IF to < 0 THEN Max({n + to, 0}) ELSE Min({to, n})
    IN  IF a >= b THEN << >> ELSE SubSeq(s, a + 1, b)

\* String.prototype.indexOf / Buffer.prototype.indexOf (0-based, -1 if absent)
indexOf(s, pat, start) ==
    LET hits == {i \in start..(Len(s) - Len(pat)) :
                    SubSeq(s, i + 1, i + Len(pat)) = pat}
    IN  IF hits = {} THEN -1 ELSE Min(hits)

\* String.prototype.startsWith
startsWith(s, p) == Len(p) <= Len(s) /\ SubSeq(s, 1, Len(p)) = p

\* String.prototype.endsWith
endsWith(s, p) ==
    Len(p) <= Len(s) /\ SubSeq(s, Len(s) - Len(p) + 1, Len(s)) = p

\* String.prototype.includes
includes(s, p) == indexOf(s, p, 0) # -1

\* String.prototype.replace with a string pattern: the first occurrence only
replaceFirst(s, pat, by) ==
    LET i == indexOf(s, pat, 0)
    IN  IF i = -1 THEN s
        ELSE slice(s, 0, i) \o by \o slice(s, i + Len(pat), Len(s))

\* String.prototype.replace(/[c]/g, by) for a class of characters
replaceAll(s, class, by) ==
    [i \in 1..Len(s) |-> IF s[i] \in class THEN by ELSE s[i]]

\* String.prototype.split(sep)
RECURSIVE split(_, _)
split(s, sep) ==
    LET i == indexOf(s, sep, 0)
    IN  IF i = -1 THEN <<s>>
        ELSE <<slice(s, 0, i)>> \o split(slice(s, i + Len(sep), Len(s)), sep)

\* the characters [a-zA-Z0-9]
AlphaNumeric == Range(UpperCase) \cup Range(LowerCase) \cup Range(Digits)

\* the characters every character the model uses is drawn from
Alphabet ==
    AlphaNumeric \cup Range(<<" ","\"","#","-",".","/",":",";","=","_","\r","\n">>)

\* filename.replace(/[^a-zA-Z0-9._-]/g, "_")
safeName(filename) ==
    replaceAll(filename, Alphabet \ (AlphaNumeric \cup {".", "_", "-"}), "_")

\* the order of the characters in the keys (their char codes)
CharOrder == <<"\n","\r"," ","\"","#","-",".","/","0","1","2","3","4","5","6","7","8","9",":",";","=","A","B","C","D","E","F","G","H","I","J","K","L","M","N","O","P","Q","R","S","T","U","V","W","X","Y","Z","_","a","b","c","d","e","f","g","h","i","j","k","l","m","n","o","p","q","r","s","t","u","v","w","x","y","z">>

CharCode(c) == CHOOSE i \in 1..Len(CharOrder) : CharOrder[i] = c

\* a < b in the binary order of keys
RECURSIVE KeyLess(_, _)
KeyLess(a, b) ==
    IF b = << >> THEN FALSE
    ELSE IF a = << >> THEN TRUE
    ELSE IF a[1] # b[1] THEN CharCode(a[1]) < CharCode(b[1])
    ELSE KeyLess(Tail(a), Tail(b))

---------------------------------------------------------------------------
(* The storage service (R2, reached through the S3 client) *)

\* an object of the bucket
Object(key, body, contentType, modified) ==
    [Key |-> key, Body |-> body, ContentType |-> contentType,
     LastModified |-> modified]

\* an object as a listing reports it
Listed(obj) ==
    [Key |-> obj.Key, Size |-> Len(obj.Body), LastModified |-> obj.LastModified]

\* the whole listing of the bucket
Listing == [i \in 1..Len(bucket) |-> Listed(bucket[i])]

\* the clock: new Date().toISOString()
Instants == {<<"2","0","2","6","-","0","1","-","0","1","T","1","0",":","0","0",":","0","0",".","0","0","0","Z">>, <<"2","0","2","6","-","0","1","-","0","1","T","1","0",":","0","0",":","0","1",".","5","0","0","Z">>}

\* the Date the objects of the initial bucket were written at
Christmas == <<"2","0","2","5","-","1","2","-","2","4">>

\* keys a small bucket is made of, in key order
KeyPool == <<
    <<"B",".","J","P","G">>,
    <<"G","u","e","s","t","_","U","P","L","O","A","D","S","/","v",".","m","p","4">>,
    <<"M","a","n","i","f","e","s","t",".","p","n","g">>,
    <<"_","h",".","p","n","g">>,
    <<"a",".","p","n","g">>,
    <<"d","/","_","x",".","H","E","I","C">>,
    <<"g","i","f">>,
    <<"n",".","t","x","t">> >>

\* the subsequences of 1..n with at most k elements, as increasing sequences
RECURSIVE Choices(_, _, _)
Choices(from, n, k) ==
    IF k = 0 \/ from > n THEN {<< >>}
    ELSE {<< >>} \cup
         UNION {{<<i>> \o c : c \in Choices(i + 1, n, k - 1)} : i \in from..n}

SmallBuckets ==
    {[i \in 1..Len(c) |-> Object(KeyPool[c[i]], <<"x","y">>, <<"i","m","a","g","e","/","p","n","g">>, Christmas)] :
        c \in Choices(1, Len(KeyPool), MaxSmallBucket)}

TwoDigits(i) == <<Digits[(i \div 10) + 1], Digits[(i % 10) + 1]>>

\* n media objects "01.jpg", "02.jpg", ... followed by a manifest
LargeBucket(n) ==
    [i \in 1..n |-> Object(TwoDigits(i) \o <<".","j","p","g">>, <<"x","y">>, <<"i","m","a","g","e","/","j","p","e","g">>, Christmas)]
    \o <<Object(<<"_","m","a","n","i","f","e","s","t",".","j","s","o","n">>, <<"{","}">>, <<"a","p","p","l","i","c","a","t","i","o","n","/","j","s","o","n">>, Christmas)>>

LargeBuckets == {LargeBucket(n) : n \in (SampleSize - 1)..(SampleSize + MaxOver)}

GalleryBuckets == SmallBuckets \cup LargeBuckets

\* the lengths the service may give the page that starts at object `from`
PageLens(token) ==
    LET from == IF token = Null THEN 1 ELSE token[1]
        left == Len(bucket) - from + 1
    IN  IF left <= 0 THEN {0}
        ELSE (1..Min({MaxPageLen, left, MaxKeys})) \cup {Min({left, MaxKeys})}

\* the response to ListObjectsV2 with ContinuationToken `token`, as a page of
\* `len` objects; a continuation token is the position of the next object
ListObjectsV2(token, len) ==
    LET from == IF token = Null THEN 1 ELSE token[1]
        more == from + len <= Len(bucket)
    IN  [Contents |-> SubSeq(Listing, from, from + len - 1),
         IsTruncated |-> more,
         NextContinuationToken |-> IF more THEN <<from + len>> ELSE Null]

\* new GetObjectCommand({ Bucket, Key })
GetObjectCommand(key) == [op |-> "GetObject", Key |-> key]

\* new PutObjectCommand({ Bucket, Key, Body, ContentType })
PutObjectCommand(key, body, contentType) ==
    [op |-> "PutObject", Key |-> key, Body |-> body, ContentType |-> contentType]

\* new HeadObjectCommand({ Bucket, Key })
HeadObjectCommand(key) == [op |-> "HeadObject", Key |-> key]

\* getSignedUrl(r2Client, command, { expiresIn }): the credential it issues
getSignedUrl(command, expiresIn) ==
    [command |-> command, expiresIn |-> expiresIn]

\* the keys of the bucket's objects
BucketKeys == {bucket[i].Key : i \in 1..Len(bucket)}

\* process.env with all three credentials set, and with some unset
Configs == [R2_ACCOUNT_ID : BOOLEAN, R2_ACCESS_KEY_ID : BOOLEAN,
            R2_SECRET_ACCESS_KEY : BOOLEAN]

\* a check that fires only when all three credentials are unset
MissingAllCredentials ==
    ~config.R2_ACCOUNT_ID /\ ~config.R2_ACCESS_KEY_ID
        /\ ~config.R2_SECRET_ACCESS_KEY

\* !R2_ACCOUNT_ID || !R2_ACCESS_KEY_ID || !R2_SECRET_ACCESS_KEY
MissingCredentials ==
    ~config.R2_ACCOUNT_ID \/ ~config.R2_ACCESS_KEY_ID
        \/ ~config.R2_SECRET_ACCESS_KEY

\* a handler's return value
Reply(status, body) == [statusCode |-> status, body |-> body]

Methods == {"GET", "POST", "OPTIONS"}

---------------------------------------------------------------------------
(* The gallery handler *)

mediaExtensions == <<<<".","j","p","g">>, <<".","j","p","e","g">>, <<".","p","n","g">>, <<".","g","i","f">>, <<".","w","e","b","p">>,
                     <<".","h","e","i","c">>, <<".","h","e","i","f">>, <<".","m","p","4">>, <<".","m","o","v">>, <<".","w","e","b","m">>>>

\* the filter on the extension alone
IsMediaFileByExtension(obj) ==
    LET key == toLowerCase(obj.Key)
    IN  \E e \in 1..Len(mediaExtensions) : endsWith(key, mediaExtensions[e])

\* the predicate of allObjects.filter(...)
IsMediaFile(obj) ==
    LET key == toLowerCase(obj.Key)
    IN  IF startsWith(key, <<"_">>) \/ includes(key, <<"m","a","n","i","f","e","s","t">>) THEN FALSE
        ELSE \E e \in 1..Len(mediaExtensions) : endsWith(key, mediaExtensions[e])

\* allObjects.filter(obj => ...)
RECURSIVE filterMedia(_)
filterMedia(arr) ==
    IF arr = << >> THEN << >>
    ELSE (IF IsMediaFile(Head(arr)) THEN <<Head(arr)>> ELSE << >>)
         \o filterMedia(Tail(arr))

\* the streams of Math.random() values: the k-th call returns
\* ((seed + k * step) % RandomLevels) / RandomLevels
RandomStreams == [seed : 0..(RandomLevels - 1), step : 0..(RandomLevels - 1)]

\* Math.floor(Math.random() * (i + 1)) at the k-th call
RandomIndex(rnd, k, i) ==
    (((rnd.seed + k * rnd.step) % RandomLevels) * (i + 1)) \div RandomLevels

\* shuffleArray: the loop from 0-based index i down to 1, k calls made so far
RECURSIVE shuffleFrom(_, _, _, _)
shuffleFrom(array, i, k, rnd) ==
    IF i <= 0 THEN array
    ELSE LET j == RandomIndex(rnd, k, i)
             swapped == [array EXCEPT ![i + 1] = array[j + 1],
                                      ![j + 1] = array[i + 1]]
         IN  shuffleFrom(swapped, i - 1, k + 1, rnd)

shuffleArray(array, rnd) == shuffleFrom(array, Len(array) - 1, 0, rnd)

\* the sample without the cut at 50
SampleAll(shuffledFiles) == shuffledFiles

\* shuffledFiles.slice(0, 50)
Sample(shuffledFiles) == slice(shuffledFiles, 0, SampleSize)

\* the object the mapper returns for obj once its URL is signed
GalleryItem(obj, signedUrl) ==
    LET parts == split(obj.Key, <<"/">>)
        key == toLowerCase(obj.Key)
    IN  [key |-> obj.Key,
         url |-> signedUrl,
         filename |-> parts[Len(parts)],
         contributor |->
            replaceAll(replaceFirst(parts[1], <<"_","U","P","L","O","A","D","S">>, << >>), {"_"}, " "),
         size |-> obj.Size,
         lastModified |-> obj.LastModified,
         isVideo |-> \E e \in {<<".","m","p","4">>, <<".","m","o","v">>, <<".","w","e","b","m">>} : endsWith(key, e),
         isHeic |-> \E e \in {<<".","h","e","i","c">>, <<".","h","e","i","f">>} : endsWith(key, e)]

\* overtaken records that an issuance completed before an earlier one
GalInit == [allObjects |-> << >>, continuationToken |-> Null,
            listCommand |-> Null, shuffledFiles |-> << >>,
            pending |-> {}, photos |-> << >>, overtaken |-> FALSE]

\* the command built without the continuation token
ListCommandFirstPage(token) == [MaxKeys |-> MaxKeys, ContinuationToken |-> Null]

\* new ListObjectsV2Command({ Bucket, MaxKeys: 1000, ContinuationToken })
ListCommand(token) == [MaxKeys |-> MaxKeys, ContinuationToken |-> token]

\* the handler up to its first await
GalleryStart(method) ==
    /\ handler = "idle"
    /\ handler' = "gallery"
    /\ event' = [httpMethod |-> method]
    /\ IF method = "OPTIONS"
       THEN /\ response' = Reply(200, << >>)
            /\ pc' = "done"
            /\ UNCHANGED <<calls, gal>>
       ELSE IF method # "GET"
       THEN /\ response' = Reply(405, [error |-> "Method not allowed"])
            /\ pc' = "done"
            /\ UNCHANGED <<calls, gal>>
       ELSE IF MissingCredentials
       THEN /\ response' = Reply(500, [error |-> "Server configuration error"])
            /\ pc' = "done"
            /\ UNCHANGED <<calls, gal>>
       ELSE /\ gal' = [gal EXCEPT !.listCommand = ListCommand(Null)]
            /\ calls' = calls \cup {"ListObjectsV2"}
            /\ pc' = "awaitList"
            /\ UNCHANGED response
    /\ UNCHANGED <<served, config, bucket, faults, pre, up>>

\* the code after the pagination loop up to the await of Promise.all
StartSigning(allObjects, rnd) ==
    LET mediaFiles == filterMedia(allObjects)
        shuffledFiles == shuffleArray(mediaFiles, rnd)
        sample == Sample(shuffledFiles)
    IN  /\ gal' = [allObjects |-> allObjects, continuationToken |-> Null,
                   listCommand |-> Null,
                   shuffledFiles |-> shuffledFiles,
                   pending |-> 1..Len(sample),
                   photos |-> [i \in 1..Len(sample) |-> Null],
                   overtaken |-> FALSE]
        /\ calls' = IF sample = << >> THEN calls
                    ELSE calls \cup {"getSignedUrl"}
        /\ pc' = "awaitSigns"

\* one turn of the do/while loop: a page arrives
GalleryListReturn ==
    /\ handler = "gallery" /\ pc = "awaitList"
    /\ \E len \in PageLens(gal.listCommand.ContinuationToken) :
        LET listResponse == ListObjectsV2(gal.listCommand.ContinuationToken, len)
            allObjects == gal.allObjects \o listResponse.Contents
            continuationToken ==
                IF listResponse.IsTruncated
                THEN listResponse.NextContinuationToken ELSE Null
        IN  IF continuationToken # Null
            THEN /\ gal' = [gal EXCEPT !.allObjects = allObjects,
                                       !.continuationToken = continuationToken,
                                       !.listCommand = ListCommand(continuationToken)]
                 /\ calls' = calls \cup {"ListObjectsV2 continued"}
                 /\ pc' = "awaitList"
            ELSE \E rnd \in RandomStreams : StartSigning(allObjects, rnd)
    /\ UNCHANGED <<served, config, bucket, handler, event, response, faults, pre, up>>

\* a catch block that answers with an empty gallery
GalleryFailureAsEmpty(message) ==
    Reply(200, [success |-> TRUE, photos |-> << >>, total |-> 0])

\* the catch block's response
GalleryFailure(message) ==
    Reply(500, [error |-> "Failed to fetch gallery", details |-> message])

\* r2Client.send(listCommand) rejects: the catch block
GalleryListFail ==
    /\ handler = "gallery" /\ pc = "awaitList"
    /\ faults' = faults \cup {"ListObjectsV2"}
    /\ response' = GalleryFailure("list failed")
    /\ pc' = "done"
    /\ UNCHANGED <<served, config, bucket, handler, event, calls, gal, pre, up>>

\* the issuances that may complete next
Completable ==
    IF gal.pending = {} THEN {}
    ELSE LET first == Min(gal.pending)
         IN  {i \in first..(first + MaxReorder - 1) : i \in gal.pending}

\* results collected in the order the issuances complete
SettleInArrivalOrder(photos, i, item) ==
    LET free == Min({k \in 1..Len(photos) : photos[k] = Null})
    IN  [photos EXCEPT ![free] = <<item>>]

\* Promise.all: the value of the i-th promise becomes the i-th result
Settle(photos, i, item) == [photos EXCEPT ![i] = <<item>>]

\* getSignedUrl resolves for the i-th sampled object
GallerySignResolve(i) ==
    /\ handler = "gallery" /\ pc = "awaitSigns"
    /\ LET obj == gal.shuffledFiles[i]
           signedUrl == getSignedUrl(GetObjectCommand(obj.Key), ExpiresIn)
       IN  gal' = [gal EXCEPT
                !.pending = @ \ {i},
                !.photos = Settle(@, i, GalleryItem(obj, signedUrl)),
                !.overtaken = @ \/ i # Min(gal.pending)]
    /\ UNCHANGED <<served, config, bucket, handler, pc, event, response, calls, faults,
                   pre, up>>

\* getSignedUrl rejects for the i-th sampled object: Promise.all rejects
GallerySignReject(i) ==
    /\ handler = "gallery" /\ pc = "awaitSigns"
    /\ faults' = faults \cup {"getSignedUrl"}
    /\ response' = GalleryFailure("sign failed")
    /\ pc' = "done"
    /\ UNCHANGED <<served, config, bucket, handler, event, calls, gal, pre, up>>

\* Promise.all resolved: the success response
GalleryRespond ==
    /\ handler = "gallery" /\ pc = "awaitSigns"
    /\ gal.pending = {}
    /\ LET photos == [i \in 1..Len(gal.photos) |-> gal.photos[i][1]]
       IN  response' = Reply(200, [success |-> TRUE, photos |-> photos,
                                   total |-> Len(photos)])
    /\ pc' = "done"
    /\ UNCHANGED <<served, config, bucket, handler, event, calls, faults, gal, pre, up>>

Idle ==
    /\ handler = "idle" /\ pc = "idle" /\ event = Null /\ response = Null
    /\ calls = {} /\ faults = {} /\ gal = GalInit /\ pre = Null /\ up = Null
    /\ served = {}

InitGallery ==
    /\ config \in Configs
    /\ bucket \in GalleryBuckets
    /\ Idle

NextGallery ==
    \/ \E method \in Methods : GalleryStart(method)
    \/ GalleryListReturn
    \/ GalleryListFail
    \/ \E i \in Completable : GallerySignResolve(i)
    \/ \E i \in Completable : GallerySignReject(i)
    \/ GalleryRespond

SpecGallery == InitGallery /\ [][NextGallery]_vars



---------------------------------------------------------------------------
(* The earlier gallery handler: one page, newest first *)

\* MaxKeys: 100 of the earlier handler's only request
NewestMaxKeys == 100

\* new ListObjectsV2Command({ Bucket, MaxKeys: 100 })
NewestListCommand == [MaxKeys |-> NewestMaxKeys]

\* the predicate of objects.filter(...): the extension alone
HasMediaExtension(obj) ==
    LET key == toLowerCase(obj.Key)
    IN  \E e \in 1..Len(mediaExtensions) : endsWith(key, mediaExtensions[e])

\* objects.filter(obj => ...)
RECURSIVE filterByExtension(_)
filterByExtension(arr) ==
    IF arr = << >> THEN << >>
    ELSE (IF HasMediaExtension(Head(arr)) THEN <<Head(arr)>> ELSE << >>)
         \o filterByExtension(Tail(arr))

\* new Date(lastModified) as a full ISO instant: a date alone is its midnight
IsoInstant(lastModified) ==
    IF Len(lastModified) = 10 THEN lastModified \o <<"T","0","0",":","0","0",":","0","0",".","0","0","0","Z">>
    ELSE lastModified

\* new Date(b.LastModified) - new Date(a.LastModified) < 0: a is the newer
Newer(a, b) == KeyLess(IsoInstant(b.LastModified), IsoInstant(a.LastModified))

\* mediaFiles.sort(...): newest first, equal dates in their listing order
RECURSIVE sortNewestFirst(_)
sortNewestFirst(arr) ==
    IF arr = << >> THEN << >>
    ELSE LET sorted == sortNewestFirst(SubSeq(arr, 1, Len(arr) - 1))
             x == arr[Len(arr)]
             older == {k \in 1..Len(sorted) : Newer(x, sorted[k])}
             at == IF older = {} THEN Len(sorted) + 1 ELSE Min(older)
         IN  SubSeq(sorted, 1, at - 1) \o <<x>> \o SubSeq(sorted, at, Len(sorted))

\* the handler up to its first await
GalleryNewestStart(method) ==
    /\ handler = "idle"
    /\ handler' = "galleryNewest"
    /\ event' = [httpMethod |-> method]
    /\ IF method = "OPTIONS"
       THEN /\ response' = Reply(200, << >>)
            /\ pc' = "done"
            /\ UNCHANGED <<calls, gal>>
       ELSE IF method # "GET"
       THEN /\ response' = Reply(405, [error |-> "Method not allowed"])
            /\ pc' = "done"
            /\ UNCHANGED <<calls, gal>>
       ELSE IF MissingCredentials
       THEN /\ response' = Reply(500, [error |-> "Server configuration error"])
            /\ pc' = "done"
            /\ UNCHANGED <<calls, gal>>
       ELSE /\ gal' = [gal EXCEPT !.listCommand = NewestListCommand]
            /\ calls' = calls \cup {"ListObjectsV2"}
            /\ pc' = "awaitList"
            /\ UNCHANGED response
    /\ UNCHANGED <<served, config, bucket, faults, pre, up>>

\* the page arrives: whatever it holds is filtered, sorted and signed; the
\* sorted mediaFiles are kept where the signing steps read them
GalleryNewestListReturn ==
    /\ handler = "galleryNewest" /\ pc = "awaitList"
    /\ \E len \in {l \in PageLens(Null) : l <= NewestMaxKeys} :
        LET listResponse == ListObjectsV2(Null, len)
            objects == listResponse.Contents
            mediaFiles == sortNewestFirst(filterByExtension(objects))
            sample == slice(mediaFiles, 0, SampleSize)
        IN  /\ gal' = [allObjects |-> objects, continuationToken |-> Null,
                       listCommand |-> Null,
                       shuffledFiles |-> mediaFiles,
                       pending |-> 1..Len(sample),
                       photos |-> [i \in 1..Len(sample) |-> Null],
                       overtaken |-> FALSE]
            /\ calls' = IF sample = << >> THEN calls
                        ELSE calls \cup {"getSignedUrl"}
            /\ pc' = "awaitSigns"
    /\ UNCHANGED <<served, config, bucket, handler, event, response, faults, pre, up>>

\* r2Client.send(listCommand) rejects: the catch block
GalleryNewestListFail ==
    /\ handler = "galleryNewest" /\ pc = "awaitList"
    /\ faults' = faults \cup {"ListObjectsV2"}
    /\ response' = GalleryFailure("list failed")
    /\ pc' = "done"
    /\ UNCHANGED <<served, config, bucket, handler, event, calls, gal, pre, up>>

\* getSignedUrl resolves for the i-th of the newest files
GalleryNewestSignResolve(i) ==
    /\ handler = "galleryNewest" /\ pc = "awaitSigns"
    /\ LET obj == gal.shuffledFiles[i]
           signedUrl == getSignedUrl(GetObjectCommand(obj.Key), ExpiresIn)
       IN  gal' = [gal EXCEPT
                !.pending = @ \ {i},
                !.photos = Settle(@, i, GalleryItem(obj, signedUrl)),
                !.overtaken = @ \/ i # Min(gal.pending)]
    /\ UNCHANGED <<served, config, bucket, handler, pc, event, response, calls, faults,
                   pre, up>>

\* getSignedUrl rejects for the i-th of the newest files: Promise.all rejects
GalleryNewestSignReject(i) ==
    /\ handler = "galleryNewest" /\ pc = "awaitSigns"
    /\ faults' = faults \cup {"getSignedUrl"}
    /\ response' = GalleryFailure("sign failed")
    /\ pc' = "done"
    /\ UNCHANGED <<served, config, bucket, handler, event, calls, gal, pre, up>>

\* Promise.all resolved: the success response
GalleryNewestRespond ==
    /\ handler = "galleryNewest" /\ pc = "awaitSigns"
    /\ gal.pending = {}
    /\ LET photos == [i \in 1..Len(gal.photos) |-> gal.photos[i][1]]
       IN  response' = Reply(200, [success |-> TRUE, photos |-> photos,
                                   total |-> Len(photos)])
    /\ pc' = "done"
    /\ UNCHANGED <<served, config, bucket, handler, event, calls, faults, gal, pre, up>>

NextGalleryNewest ==
    \/ \E method \in Methods : GalleryNewestStart(method)
    \/ GalleryNewestListReturn
    \/ GalleryNewestListFail
    \/ \E i \in Completable : GalleryNewestSignResolve(i)
    \/ \E i \in Completable : GalleryNewestSignReject(i)
    \/ GalleryNewestRespond

---------------------------------------------------------------------------
(* The upload-credential handler *)

\* event.body: absent, not JSON, the JSON null, or a JSON object; a field
\* the object does not carry is Null
PresignBodies ==
    {[kind |-> "absent"], [kind |-> "malformed"], [kind |-> "null"]} \cup
    [kind : {"object"},
     filename : {Null, <<"a",".","p","n","g">>, <<"M","y"," ","P","h","o","t","o"," ","#","1",".","J","P","G">>},
     contentType : {Null, <<"i","m","a","g","e","/","p","n","g">>},
     size : {Null, <<2>>},
     fileHash : {Null, <<"a","b","c","1","2","3">>, <<"9","f">>}]

\* the buckets the upload-credential handler probes
PresignBuckets ==
    {<< >>,
     <<Object(<<"M","e","m","o","r","i","a","l","_","G","u","e","s","t","_","U","P","L","O","A","D","S","/","a","b","c","1","2","3","_","M","y","_","P","h","o","t","o","_","_","1",".","J","P","G">>, <<"x","y">>,
              <<"i","m","a","g","e","/","j","p","e","g">>, Christmas),
       Object(<<"M","e","m","o","r","i","a","l","_","G","u","e","s","t","_","U","P","L","O","A","D","S","/","a","b","c","1","2","3","_","a",".","p","n","g">>, <<"x","y">>,
              <<"i","m","a","g","e","/","p","n","g">>, Christmas)>>}

\* how many answered requests are remembered for comparison
MaxServed == 2

\* the errors HeadObject may reject with besides NotFound
ProbeErrors == {"NetworkError", "AccessDenied"}

\* new Date().toISOString().replace(/[:.]/g, "-").slice(0, 19)
Timestamp(now) == slice(replaceAll(now, {":", "."}, "-"), 0, 19)

\* `Memorial_Guest_UPLOADS/${discriminator}_${safeFilename}`
GuestKey(discriminator, safeFilename) ==
    <<"M","e","m","o","r","i","a","l","_","G","u","e","s","t","_","U","P","L","O","A","D","S","/">> \o discriminator \o <<"_">> \o safeFilename

\* contentType || "application/octet-stream"
OrOctetStream(contentType) ==
    IF contentType # Null THEN contentType ELSE <<"a","p","p","l","i","c","a","t","i","o","n","/","o","c","t","e","t","-","s","t","r","e","a","m">>

\* a key that carries the time of the call in both modes
ObjectKeyStamped(fileHash, safeFilename, now) ==
    GuestKey(Timestamp(now), safeFilename)

\* let objectKey; if (fileHash) { ... } else { ... }
ObjectKey(fileHash, safeFilename, now) ==
    IF fileHash # Null THEN GuestKey(fileHash, safeFilename)
    ELSE GuestKey(Timestamp(now), safeFilename)

\* the catch block's response
PresignFailure(message) ==
    Reply(500, [error |-> "Failed to generate upload URL: " \o message])

\* the handler up to its first await
PresignStart(method, body) ==
    /\ handler = "idle"
    /\ handler' = "presign"
    /\ event' = [httpMethod |-> method, body |-> body]
    /\ IF method = "OPTIONS"
       THEN /\ response' = Reply(200, << >>)
            /\ pc' = "done"
            /\ UNCHANGED <<calls, pre>>
       ELSE IF method # "POST"
       THEN /\ response' = Reply(405, [error |-> "Method not allowed"])
            /\ pc' = "done"
            /\ UNCHANGED <<calls, pre>>
       ELSE IF MissingCredentials
       THEN /\ response' = Reply(500, [error |-> "Storage not configured"])
            /\ pc' = "done"
            /\ UNCHANGED <<calls, pre>>
       ELSE IF body.kind # "object"
       THEN \* JSON.parse or the destructuring throws
            /\ response' = PresignFailure("cannot read the body")
            /\ pc' = "done"
            /\ UNCHANGED <<calls, pre>>
       ELSE IF body.filename = Null
       THEN /\ response' = Reply(400, [error |-> "Filename is required"])
            /\ pc' = "done"
            /\ UNCHANGED <<calls, pre>>
       ELSE \E now \in Instants :
            LET safeFilename == safeName(body.filename)
                objectKey == ObjectKey(body.fileHash, safeFilename, now)
            IN  IF body.fileHash # Null
                THEN /\ pre' = [objectKey |-> objectKey, probe |-> "pending"]
                     /\ calls' = calls \cup {"HeadObject"}
                     /\ pc' = "awaitHead"
                     /\ UNCHANGED response
                ELSE /\ pre' = [objectKey |-> objectKey, probe |-> "none"]
                     /\ calls' = calls \cup {"getSignedUrl"}
                     /\ pc' = "awaitSign"
                     /\ UNCHANGED response
    /\ UNCHANGED <<served, config, bucket, faults, gal, up>>

\* what the try block does with a probe that resolved
AfterProbeResolved(objectKey) ==
    /\ response' = Reply(200, [success |-> TRUE, skipped |-> TRUE,
                               objectKey |-> objectKey,
                               message |-> "File already exists"])
    /\ pc' = "done"
    /\ UNCHANGED calls

\* catch (err) { /* File doesn't exist, proceed */ }, then the code after it
AfterProbeRejected(err) ==
    /\ calls' = calls \cup {"getSignedUrl"}
    /\ pc' = "awaitSign"
    /\ UNCHANGED response

\* HeadObject resolves: the object exists
PresignHeadResolve ==
    /\ handler = "presign" /\ pc = "awaitHead"
    /\ pre.objectKey \in BucketKeys
    /\ pre' = [pre EXCEPT !.probe = "Exists"]
    /\ AfterProbeResolved(pre.objectKey)
    /\ UNCHANGED <<served, config, bucket, handler, event, faults, gal, up>>

\* HeadObject rejects: NotFound when the object does not exist, or another error
PresignHeadReject(err) ==
    /\ handler = "presign" /\ pc = "awaitHead"
    /\ err = "NotFound" => pre.objectKey \notin BucketKeys
    /\ pre' = [pre EXCEPT !.probe = err]
    /\ faults' = IF err = "NotFound" THEN faults ELSE faults \cup {"HeadObject"}
    /\ AfterProbeRejected(err)
    /\ UNCHANGED <<served, config, bucket, handler, event, gal, up>>

\* getSignedUrl resolves: the credential response
PresignSignResolve ==
    /\ handler = "presign" /\ pc = "awaitSign"
    /\ LET command == PutObjectCommand(pre.objectKey, Null,
                                       OrOctetStream(event.body.contentType))
       IN  response' = Reply(200, [success |-> TRUE,
                                   uploadUrl |-> getSignedUrl(command, ExpiresIn),
                                   objectKey |-> pre.objectKey,
                                   expiresIn |-> ExpiresIn])
    /\ pc' = "done"
    /\ UNCHANGED <<served, config, bucket, handler, event, calls, faults, gal, pre, up>>

\* getSignedUrl rejects: the catch block
PresignSignReject ==
    /\ handler = "presign" /\ pc = "awaitSign"
    /\ faults' = faults \cup {"getSignedUrl"}
    /\ response' = PresignFailure("sign failed")
    /\ pc' = "done"
    /\ UNCHANGED <<served, config, bucket, handler, event, calls, gal, pre, up>>

\* what a deduplicating request that was answered with an object key
\* leaves behind: the pair it asked for and the key it was told
Answered ==
    IF /\ handler = "presign" /\ pc = "done"
       /\ response.statusCode = 200 /\ event.httpMethod = "POST"
       /\ event.body.fileHash # Null
    THEN {[filename |-> event.body.filename, fileHash |-> event.body.fileHash,
           objectKey |-> response.body.objectKey,
           skipped |-> "skipped" \in DOMAIN response.body]}
    ELSE {}

\* the invocation is over; the next one starts from scratch, at a later
\* time and with the bucket in any state
PresignAgain ==
    /\ handler = "presign" /\ pc = "done"
    /\ Cardinality(served \cup Answered) <= MaxServed
    /\ served' = served \cup Answered
    /\ bucket' \in PresignBuckets
    /\ handler' = "idle" /\ pc' = "idle" /\ event' = Null /\ response' = Null
    /\ calls' = {} /\ faults' = {} /\ pre' = Null
    /\ UNCHANGED <<config, gal, up>>

InitPresign ==
    /\ config \in Configs
    /\ bucket \in PresignBuckets
    /\ Idle

\* the steps of one invocation
PresignSteps ==
    \/ \E method \in Methods, body \in PresignBodies : PresignStart(method, body)
    \/ PresignHeadResolve
    \/ \E err \in {"NotFound"} \cup ProbeErrors : PresignHeadReject(err)
    \/ PresignSignResolve
    \/ PresignSignReject

NextPresign == PresignSteps \/ PresignAgain

SpecPresign == InitPresign /\ [][NextPresign]_vars

---------------------------------------------------------------------------
(* The earlier upload-credential handler: no content hash, no probe *)

\* the handler up to its first await: the key always carries the clock
PresignClockStart(method, body) ==
    /\ handler = "idle"
    /\ handler' = "presignClock"
    /\ event' = [httpMethod |-> method, body |-> body]
    /\ IF method = "OPTIONS"
       THEN /\ response' = Reply(200, << >>)
            /\ pc' = "done"
            /\ UNCHANGED <<calls, pre>>
       ELSE IF method # "POST"
       THEN /\ response' = Reply(405, [error |-> "Method not allowed"])
            /\ pc' = "done"
            /\ UNCHANGED <<calls, pre>>
       ELSE IF MissingCredentials
       THEN /\ response' = Reply(500, [error |-> "Storage not configured"])
            /\ pc' = "done"
            /\ UNCHANGED <<calls, pre>>
       ELSE IF body.kind # "object"
       THEN \* JSON.parse or the destructuring throws
            /\ response' = PresignFailure("cannot read the body")
            /\ pc' = "done"
            /\ UNCHANGED <<calls, pre>>
       ELSE IF body.filename = Null
       THEN /\ response' = Reply(400, [error |-> "Filename is required"])
            /\ pc' = "done"
            /\ UNCHANGED <<calls, pre>>
       ELSE \E now \in Instants :
            /\ pre' = [objectKey |-> GuestKey(Timestamp(now), safeName(body.filename)),
                       probe |-> "none"]
            /\ calls' = calls \cup {"getSignedUrl"}
            /\ pc' = "awaitSign"
            /\ UNCHANGED response
    /\ UNCHANGED <<served, config, bucket, faults, gal, up>>

\* getSignedUrl resolves: the credential response
PresignClockSignResolve ==
    /\ handler = "presignClock" /\ pc = "awaitSign"
    /\ LET command == PutObjectCommand(pre.objectKey, Null,
                                       OrOctetStream(event.body.contentType))
       IN  response' = Reply(200, [success |-> TRUE,
                                   uploadUrl |-> getSignedUrl(command, ExpiresIn),
                                   objectKey |-> pre.objectKey,
                                   expiresIn |-> ExpiresIn])
    /\ pc' = "done"
    /\ UNCHANGED <<served, config, bucket, handler, event, calls, faults, gal, pre, up>>

\* getSignedUrl rejects: the catch block
PresignClockSignReject ==
    /\ handler = "presignClock" /\ pc = "awaitSign"
    /\ faults' = faults \cup {"getSignedUrl"}
    /\ response' = PresignFailure("sign failed")
    /\ pc' = "done"
    /\ UNCHANGED <<served, config, bucket, handler, event, calls, gal, pre, up>>

NextPresignClock ==
    \/ \E method \in Methods, body \in PresignBodies :
          PresignClockStart(method, body)
    \/ PresignClockSignResolve
    \/ PresignClockSignReject

---------------------------------------------------------------------------
(* Properties of the upload-credential handler *)

\* the request carries a fileHash and a filename and got past the checks
HashMode ==
    /\ handler = "presign"
    /\ event.httpMethod = "POST"
    /\ ~MissingCredentials
    /\ event.body.kind = "object"
    /\ event.body.filename # Null
    /\ event.body.fileHash # Null

\* the key Memorial_Guest_UPLOADS/<fileHash>_<safeFilename> of the request
HashKey ==
    <<"M","e","m","o","r","i","a","l","_","G","u","e","s","t","_","U","P","L","O","A","D","S","/">> \o event.body.fileHash \o <<"_">>
        \o [i \in 1..Len(event.body.filename) |->
                IF event.body.filename[i] \in AlphaNumeric \cup {".", "_", "-"}
                THEN event.body.filename[i] ELSE "_"]

\* C1: in hash mode, when the probe reports that the object exists the
\* response is {success, skipped, objectKey: the hash key} and no write
\* credential is issued; a write credential is issued only after the probe
\* reported NotFound.
C1_SkipWhenExistsIssueOnlyAfterNotFound ==
    HashMode =>
        /\ (pc = "done" /\ pre.probe = "Exists") =>
            /\ response.statusCode = 200
            /\ response.body.success /\ response.body.skipped
            /\ response.body.objectKey = HashKey
            /\ "uploadUrl" \notin DOMAIN response.body
            /\ "getSignedUrl" \notin calls
        /\ "getSignedUrl" \in calls => pre.probe = "NotFound"

\* C2: in hash mode, when the probe failed with an error other than
\* NotFound, no write credential is issued and the request ends with the
\* 500 error response.
C2_ProbeFailureIsStorageUnavailable ==
    (HashMode /\ pre.probe \in ProbeErrors) =>
        /\ "getSignedUrl" \notin calls
        /\ pc = "done"
        /\ response.statusCode = 500

\* the request carries no filename: no body, a body that is not JSON, the
\* JSON null, or an object whose filename is absent or empty
NoFilename ==
    /\ handler = "presign"
    /\ event.httpMethod = "POST"
    /\ ~MissingCredentials
    /\ (event.body.kind # "object" \/ event.body.filename = Null)

\* C12: with the storage configuration present, an upload-credential request
\* whose filename is empty or absent is answered 400 and neither the
\* existence probe nor the credential issuance is performed.
C12_MissingFilenameIsValidationError ==
    NoFilename =>
        /\ pc = "done"
        /\ response.statusCode = 400
        /\ calls = {}

\* the answered deduplicating requests, the current one included
Resolved == served \cup Answered

\* C13: in deduplicating mode the object key depends only on the content
\* hash and the filename: two upload-credential requests with the same
\* filename and the same hash, made at any two times and with the bucket in
\* any state, are told the same objectKey, whether the answer is a skip or a
\* credential.
C13_SameHashAndNameSameKey ==
    \A a, b \in Resolved :
        (a.filename = b.filename /\ a.fileHash = b.fileHash)
            => a.objectKey = b.objectKey

\* a request answered with a credential after an earlier request for the
\* same filename and hash was answered with a skip
C13_Witness ==
    /\ Answered # {}
    /\ \E a \in served, b \in Answered :
        /\ a.filename = b.filename /\ a.fileHash = b.fileHash
        /\ a.skipped /\ ~b.skipped

---------------------------------------------------------------------------
(* The multipart parser of the push-upload handler *)

CRLF == <<"\r","\n">>

\* the characters \s matches and trim() strips
WhiteSpace == {" ", "\r", "\n"}

\* String.prototype.trim
RECURSIVE trim(_)
trim(s) ==
    IF s = << >> THEN s
    ELSE IF Head(s) \in WhiteSpace THEN trim(Tail(s))
    ELSE IF s[Len(s)] \in WhiteSpace THEN trim(SubSeq(s, 1, Len(s) - 1))
    ELSE s

\* headers.match(/<attr>="([^"]+)"/): the first capture, Null without a match
matchQuoted(headers, attr) ==
    LET open == attr \o <<"=","\"">>
        \* where the capture that starts at 0-based `from` ends
        close(from) == indexOf(headers, <<"\"">>, from)
        starts == {i \in 0..(Len(headers) - Len(open)) :
                      /\ SubSeq(headers, i + 1, i + Len(open)) = open
                      /\ close(i + Len(open)) > i + Len(open)}
    IN  IF starts = {} THEN Null
        ELSE LET i == Min(starts)
             IN  slice(headers, i + Len(open), close(i + Len(open)))

\* the run of characters of `class` that starts at 0-based `from`
RECURSIVE runLength(_, _, _)
runLength(s, from, class) ==
    IF from < Len(s) /\ s[from + 1] \in class
    THEN 1 + runLength(s, from + 1, class) ELSE 0

\* headers.match(/Content-Type:\s*([^\r\n]+)/i): the capture, Null without a
\* match.  \s* is greedy and gives characters back until [^\r\n]+ can match.
matchContentType(headers) ==
    LET name == <<"c","o","n","t","e","n","t","-","t","y","p","e",":">>
        lower == toLowerCase(headers)
        lineEnd == {"\r", "\n"}
        \* the 0-based position the capture starts at for the name at i, or -1
        capture(i) ==
            LET p0 == i + Len(name)
                w == runLength(headers, p0, WhiteSpace)
                ks == {k \in 0..w : p0 + k < Len(headers)
                                    /\ headers[p0 + k + 1] \notin lineEnd}
            IN  IF ks = {} THEN -1 ELSE p0 + Max(ks)
        starts == {i \in 0..(Len(headers) - Len(name)) :
                      /\ SubSeq(lower, i + 1, i + Len(name)) = name
                      /\ capture(i) # -1}
    IN  IF starts = {} THEN Null
        ELSE LET from == capture(Min(starts))
                 n == runLength(headers, from, Alphabet \ lineEnd)
             IN  slice(headers, from, from + n)

\* a loop that takes the rest of the buffer as the last segment
RECURSIVE collectPartsToEnd(_, _, _)
collectPartsToEnd(body, boundaryBuffer, idx) ==
    IF idx = -1 THEN << >>
    ELSE LET nextIdx == indexOf(body, boundaryBuffer, idx + Len(boundaryBuffer))
         IN  IF nextIdx = -1
             THEN <<slice(body, idx + Len(boundaryBuffer), Len(body))>>
             ELSE <<slice(body, idx + Len(boundaryBuffer), nextIdx)>>
                  \o collectPartsToEnd(body, boundaryBuffer, nextIdx)

\* the while loop of parseMultipart: the segments between consecutive
\* occurrences of the boundary buffer, from the occurrence at idx on
RECURSIVE collectParts(_, _, _)
collectParts(body, boundaryBuffer, idx) ==
    IF idx = -1 THEN << >>
    ELSE LET nextIdx == indexOf(body, boundaryBuffer, idx + Len(boundaryBuffer))
         IN  IF nextIdx = -1 THEN << >>
             ELSE <<slice(body, idx + Len(boundaryBuffer), nextIdx)>>
                  \o collectParts(body, boundaryBuffer, nextIdx)

\* content kept whole
keepContent(content) == content

\* const cleanContent = content.slice(0, content.length - 2)
cleanContent(content) == slice(content, 0, Len(content) - 2)

DefaultContributor == <<"M","e","m","o","r","i","a","l","_","G","u","e","s","t">>

\* the body of the for loop of parseMultipart: result after `part`
parsePart(result, part) ==
    LET headerEnd == indexOf(part, <<"\r","\n","\r","\n">>, 0)
        headers == slice(part, 0, headerEnd)
        content == slice(part, headerEnd + 4, Len(part))
        clean == cleanContent(content)
        filenameMatch == matchQuoted(headers, <<"f","i","l","e","n","a","m","e">>)
        nameMatch == matchQuoted(headers, <<"n","a","m","e">>)
        contentTypeMatch == matchContentType(headers)
    IN  IF headerEnd = -1 THEN result
        ELSE IF filenameMatch # Null
        THEN [result EXCEPT !.files = Append(@,
                [filename |-> filenameMatch,
                 contentType |-> IF contentTypeMatch # Null THEN contentTypeMatch
                                 ELSE <<"a","p","p","l","i","c","a","t","i","o","n","/","o","c","t","e","t","-","s","t","r","e","a","m">>,
                 data |-> clean])]
        ELSE IF nameMatch = <<"c","o","n","t","r","i","b","u","t","o","r">>
        THEN [result EXCEPT !.contributor =
                IF trim(clean) # << >> THEN trim(clean) ELSE DefaultContributor]
        ELSE result

\* the for loop of parseMultipart over the collected segments
RECURSIVE parseParts(_, _)
parseParts(result, parts) ==
    IF parts = << >> THEN result
    ELSE parseParts(parsePart(result, Head(parts)), Tail(parts))

\* Buffer.from(`--${boundary}`); an undefined boundary prints as "undefined"
BoundaryBuffer(boundary) ==
    <<"-","-">> \o (IF boundary = Undefined THEN <<"u","n","d","e","f","i","n","e","d">> ELSE boundary)

\* parseMultipart(body, boundary)
parseMultipart(body, boundary) ==
    LET boundaryBuffer == BoundaryBuffer(boundary)
        parts == collectParts(body, boundaryBuffer,
                              indexOf(body, boundaryBuffer, 0))
    IN  parseParts([files |-> << >>, contributor |-> DefaultContributor], parts)

---------------------------------------------------------------------------
(* What a client sends to the push-upload handlers *)

\* a client pushes at most this many parts
MaxParts == 3

Boundary == <<"B","7">>

\* the form fields and file parts a client's form is made of
PartPool == {
    [kind |-> "field", name |-> <<"c","o","n","t","r","i","b","u","t","o","r">>, value |-> <<" ","A","l"," ">>],
    [kind |-> "field", name |-> <<"m","e","s","s","a","g","e">>, value |-> <<"h","i">>],
    [kind |-> "file", name |-> <<"p","h","o","t","o","s">>, filename |-> <<"a",".","p","n","g">>,
     mimeType |-> <<"i","m","a","g","e","/","p","n","g">>, bytes |-> <<"x","\r","\n","\r","\n","y">>],
    [kind |-> "file", name |-> <<"p","h","o","t","o","s">>, filename |-> <<"M","y"," ","#","1",".","J","P","G">>,
     mimeType |-> <<"i","m","a","g","e","/","j","p","e","g">>, bytes |-> <<"-">>] }

RECURSIVE SeqsUpTo(_, _)
SeqsUpTo(pool, n) ==
    IF n = 0 THEN {<< >>}
    ELSE LET shorter == SeqsUpTo(pool, n - 1)
         IN  shorter \cup {Append(q, x) : q \in shorter, x \in pool}

Forms == SeqsUpTo(PartPool, MaxParts)

\* one part as multipart/form-data encodes it, with the delimiter before it
EncodePart(part, boundary) ==
    <<"-","-">> \o boundary \o CRLF
    \o <<"C","o","n","t","e","n","t","-","D","i","s","p","o","s","i","t","i","o","n",":"," ","f","o","r","m","-","d","a","t","a",";"," ","n","a","m","e","=","\"">> \o part.name \o <<"\"">>
    \o (IF part.kind = "file"
        THEN <<";"," ","f","i","l","e","n","a","m","e","=","\"">> \o part.filename \o <<"\"">> \o CRLF
             \o <<"C","o","n","t","e","n","t","-","T","y","p","e",":"," ">> \o part.mimeType
        ELSE << >>)
    \o CRLF \o CRLF
    \o (IF part.kind = "file" THEN part.bytes ELSE part.value)
    \o CRLF

RECURSIVE EncodeParts(_, _)
EncodeParts(form, boundary) ==
    IF form = << >> THEN << >>
    ELSE EncodePart(Head(form), boundary) \o EncodeParts(Tail(form), boundary)

\* the multipart/form-data encoding of a form; without its closing
\* delimiter when the body was cut short
Encode(form, boundary, complete) ==
    EncodeParts(form, boundary)
    \o (IF complete THEN <<"-","-">> \o boundary \o <<"-","-">> \o CRLF ELSE << >>)

\* bodies that no encoder produced
RawBodies == {
    <<"h","i">>,
    <<"-","-","B","7">>,
    <<"-","-","\r","\n","f","i","l","e","n","a","m","e","=","\"","e",".","p","n","g","\"","\r","\n","\r","\n","e","e","\r","\n","-","-">>,
    <<"-","-","B","7","\r","\n","n","a","m","e","=","\"","c","o","n","t","r","i","b","u","t","o","r","\"","\r","\n","A","l","\r","\n","-","-","B","7","-","-","\r","\n">>,
    <<"x","-","-","B","7","\r","\n","f","i","l","e","n","a","m","e","=","\"","a","\"","\r","\n","\r","\n","-","-","B","7","f","i","l","e","n","a","m","e","=","\"","b",".","g","i","f","\"","\r","\n","\r","\n","z","z","\r","\n","-","-","B","7","\r","\n","\r","\n">> }

\* event.body with what the client made it from (the handler does not see
\* `form` and `complete`); a request without a body has body Undefined
PushRequests ==
    {[body |-> Encode(form, Boundary, complete), form |-> form,
      complete |-> complete] : form \in Forms, complete \in BOOLEAN}
    \cup {[body |-> raw, form |-> Null, complete |-> FALSE] :
            raw \in RawBodies \cup {Undefined}}

\* forms sent to the inline parser alone: two contributors, a blank
\* contributor, and parts whose names, filenames or content types are not
\* what a header can carry unchanged (busboy's reading of such headers is
\* not part of this code)
OddForms ==
    LET Field(name, value) == [kind |-> "field", name |-> name, value |-> value]
        File(filename, mimeType) ==
            [kind |-> "file", name |-> <<"p","h","o","t","o","s">>, filename |-> filename,
             mimeType |-> mimeType, bytes |-> <<"z">>]
        Al == Field(<<"c","o","n","t","r","i","b","u","t","o","r">>, <<" ","A","l"," ">>)
        Bo == Field(<<"c","o","n","t","r","i","b","u","t","o","r">>, <<"B","o">>)
        Blank == Field(<<"c","o","n","t","r","i","b","u","t","o","r">>, <<" "," ">>)
        Png == File(<<"a",".","p","n","g">>, <<"i","m","a","g","e","/","p","n","g">>)
    IN  {<<Al, Bo, Png>>, <<Bo, Al>>, <<Al, Blank>>, <<Blank, Bo>>, <<Blank>>,
         <<File(<<"C","o","n","t","e","n","t","-","T","y","p","e",":","x">>, <<"i","m","a","g","e","/","p","n","g">>)>>,
         <<File(<<"b",".","g","i","f">>, <<" ","i","m","a","g","e","/","g","i","f">>), Png>>,
         <<File(<<"c",".","g","i","f">>, << >>)>>,
         <<Png, File(<< >>, <<"i","m","a","g","e","/","p","n","g">>)>>,
         <<File(<<"q","\"","r",".","p","n","g">>, <<"i","m","a","g","e","/","p","n","g">>)>>,
         <<File(<<"s","\r","\n","\r","\n","t",".","p","n","g">>, <<"i","m","a","g","e","/","p","n","g">>)>>,
         <<File(<<"d",".","g","i","f">>, <<"i","m","a","g","e","/","g","i","f","\r","\n","\r","\n","x">>)>>,
         <<[kind |-> "file", name |-> <<"c","o","n","t","e","n","t","-","t","y","p","e",":","y">>, filename |-> <<"e",".","g","i","f">>,
            mimeType |-> <<"i","m","a","g","e","/","g","i","f">>, bytes |-> <<"z">>]>>,
         <<Field(<<"c","o","n","t","r","i","b","u","t","o","r","\"","x">>, <<"Z","e","d">>), Png>>}

\* the complete encodings of the odd forms
OddRequests ==
    {[body |-> Encode(form, Boundary, TRUE), form |-> form, complete |-> TRUE] :
        form \in OddForms}

\* event.headers["content-type"]
ContentTypes == {Null, <<"t","e","x","t","/","p","l","a","i","n">>, <<"m","u","l","t","i","p","a","r","t","/","f","o","r","m","-","d","a","t","a">>,
                 <<"m","u","l","t","i","p","a","r","t","/","f","o","r","m","-","d","a","t","a",";"," ","b","o","u","n","d","a","r","y","=">>,
                 <<"m","u","l","t","i","p","a","r","t","/","f","o","r","m","-","d","a","t","a",";"," ","b","o","u","n","d","a","r","y","=","B","7">>}

\* the buckets the push-upload handlers write to
PushBuckets == {<< >>}

---------------------------------------------------------------------------
(* The storage service: writes *)

\* the bucket after the service has stored `command` at `now`
RECURSIVE PutObject(_, _, _)
PutObject(objects, command, now) ==
    LET new == Object(command.Key, command.Body, command.ContentType, now)
    IN  IF objects = << >> THEN <<new>>
        ELSE IF Head(objects).Key = command.Key THEN <<new>> \o Tail(objects)
        ELSE IF KeyLess(command.Key, Head(objects).Key) THEN <<new>> \o objects
        ELSE <<Head(objects)>> \o PutObject(Tail(objects), command, now)

---------------------------------------------------------------------------
(* The push-upload handlers *)

Uploading == handler \in {"upload", "uploadBusboy"}

\* `${contributorName.replace(/[^a-zA-Z0-9]/g, "_")}_UPLOADS`
FolderName(contributorName) ==
    replaceAll(contributorName, Alphabet \ AlphaNumeric, "_") \o <<"_","U","P","L","O","A","D","S">>

\* the fields of a file, in the inline parser's and in busboy's naming
FileType(file) ==
    IF "mimeType" \in DOMAIN file THEN file.mimeType ELSE file.contentType

FileData(file) ==
    IF "content" \in DOMAIN file THEN file.content ELSE file.data

\* the PutObjectCommand of the loop for `file`
UploadCommand(folderName, timestamp, file) ==
    PutObjectCommand(folderName \o <<"/">> \o timestamp \o <<"_">>
                        \o safeName(file.filename),
                     FileData(file), FileType(file))

\* the success response
UploadSuccess(uploadedFiles) ==
    Reply(200, [success |-> TRUE,
                message |-> <<Len(uploadedFiles), " photo(s) uploaded successfully">>,
                files |-> uploadedFiles])

\* the catch block's response
UploadFailure(message) == Reply(500, [error |-> "Upload failed: " \o message])

\* the locals once the form is parsed; sent are the PutObject commands sent
UpLocals(files, contributor, now) ==
    [files |-> files,
     contributorName |-> IF contributor # Null THEN contributor
                         ELSE DefaultContributor,
     folderName |-> FolderName(IF contributor # Null THEN contributor
                               ELSE DefaultContributor),
     timestamp |-> Timestamp(now), now |-> now,
     uploadedFiles |-> << >>, sent |-> << >>]

\* the for loop from its start or after a write: send the next file's
\* PutObject, or leave the loop and answer
ContinueUpload(locals) ==
    IF Len(locals.uploadedFiles) < Len(locals.files)
    THEN LET file == locals.files[Len(locals.uploadedFiles) + 1]
             command == UploadCommand(locals.folderName, locals.timestamp, file)
         IN  /\ up' = [locals EXCEPT !.sent = Append(@, command)]
             /\ calls' = calls \cup {"PutObject"}
             /\ pc' = "awaitPut"
             /\ UNCHANGED response
    ELSE /\ up' = locals
         /\ response' = UploadSuccess(locals.uploadedFiles)
         /\ pc' = "done"
         /\ UNCHANGED calls

\* contentType.split("boundary=")[1]
BoundaryOf(contentType) ==
    LET pieces == split(contentType, <<"b","o","u","n","d","a","r","y","=">>)
    IN  IF Len(pieces) >= 2 THEN pieces[2] ELSE Undefined

\* the handler with the inline parser, up to its first await
UploadStart(method, contentType, request) ==
    /\ handler = "idle"
    /\ handler' = "upload"
    /\ event' = [httpMethod |-> method, contentType |-> contentType,
                 body |-> request.body, form |-> request.form,
                 complete |-> request.complete]
    /\ IF method = "OPTIONS"
       THEN /\ response' = Reply(200, << >>)
            /\ pc' = "done"
            /\ UNCHANGED <<calls, up>>
       ELSE IF method # "POST"
       THEN /\ response' = Reply(405, [error |-> "Method not allowed"])
            /\ pc' = "done"
            /\ UNCHANGED <<calls, up>>
       ELSE IF MissingCredentials
       THEN /\ response' = Reply(500, [error |-> "Storage not configured"])
            /\ pc' = "done"
            /\ UNCHANGED <<calls, up>>
       ELSE IF contentType = Null \/ ~includes(contentType, <<"m","u","l","t","i","p","a","r","t","/","f","o","r","m","-","d","a","t","a">>)
       THEN /\ response' = Reply(400,
                    [error |-> "Content-Type must be multipart/form-data"])
            /\ pc' = "done"
            /\ UNCHANGED <<calls, up>>
       ELSE IF request.body = Undefined
       THEN \* Buffer.from(undefined) throws
            /\ response' = UploadFailure("The first argument must be of type string")
            /\ pc' = "done"
            /\ UNCHANGED <<calls, up>>
       ELSE \E now \in Instants :
            LET parts == parseMultipart(request.body, BoundaryOf(contentType))
            IN  ContinueUpload(UpLocals(parts.files, parts.contributor, now))
    /\ UNCHANGED <<served, config, bucket, faults, gal, pre>>

\* the handler with busboy, up to the await of parseMultipartForm
UploadBusboyStart(method, contentType, request) ==
    /\ handler = "idle"
    /\ handler' = "uploadBusboy"
    /\ event' = [httpMethod |-> method, contentType |-> contentType,
                 body |-> request.body, form |-> request.form,
                 complete |-> request.complete]
    /\ IF method = "OPTIONS"
       THEN /\ response' = Reply(200, << >>)
            /\ pc' = "done"
       ELSE IF method # "POST"
       THEN /\ response' = Reply(405, [error |-> "Method not allowed"])
            /\ pc' = "done"
       ELSE IF MissingCredentials
       THEN /\ response' = Reply(500,
                    [error |-> "Storage not configured. Missing R2 credentials."])
            /\ pc' = "done"
       ELSE /\ pc' = "awaitParse"
            /\ UNCHANGED response
    /\ UNCHANGED <<served, config, bucket, calls, faults, gal, pre, up>>

\* what busboy emits for a form: its file events
RECURSIVE BusboyFiles(_)
BusboyFiles(form) ==
    IF form = << >> THEN << >>
    ELSE (IF Head(form).kind = "file"
          THEN <<[fieldname |-> Head(form).name, filename |-> Head(form).filename,
                  mimeType |-> Head(form).mimeType, content |-> Head(form).bytes]>>
          ELSE << >>) \o BusboyFiles(Tail(form))

\* fields.contributor after busboy's field events: the last one's value
RECURSIVE BusboyContributor(_)
BusboyContributor(form) ==
    IF form = << >> THEN Null
    ELSE LET last == form[Len(form)]
         IN  IF last.kind = "field" /\ last.name = <<"c","o","n","t","r","i","b","u","t","o","r">>
             THEN last.value
             ELSE BusboyContributor(SubSeq(form, 1, Len(form) - 1))

\* busboy accepts the request: a multipart content type with a boundary and
\* a body that is a complete encoding
BusboyAccepts ==
    /\ event.contentType # Null
    /\ startsWith(event.contentType, <<"m","u","l","t","i","p","a","r","t","/","f","o","r","m","-","d","a","t","a">>)
    /\ BoundaryOf(event.contentType) = Boundary
    /\ event.complete

\* parseMultipartForm resolves: the check for files and the loop's start
UploadBusboyParsed ==
    /\ handler = "uploadBusboy" /\ pc = "awaitParse"
    /\ BusboyAccepts
    /\ LET form == event.form
           files == BusboyFiles(form)
       IN  \E now \in Instants :
           IF Len(files) = 0
           THEN /\ up' = UpLocals(files, BusboyContributor(form), now)
                /\ response' = Reply(400, [error |-> "No files uploaded"])
                /\ pc' = "done"
                /\ UNCHANGED calls
           ELSE ContinueUpload(UpLocals(files, BusboyContributor(form), now))
    /\ UNCHANGED <<served, config, bucket, handler, event, faults, gal, pre>>

\* parseMultipartForm rejects: the catch block
UploadBusboyParseFail ==
    /\ handler = "uploadBusboy" /\ pc = "awaitParse"
    /\ ~BusboyAccepts
    /\ response' = UploadFailure("busboy")
    /\ pc' = "done"
    /\ UNCHANGED <<served, config, bucket, handler, event, calls, faults, gal, pre, up>>

\* a catch inside the loop that skips the file and goes on
AfterPutRejectedSkip(locals) ==
    ContinueUpload([locals EXCEPT !.files =
                        SubSeq(@, 1, Len(locals.uploadedFiles))
                        \o SubSeq(@, Len(locals.uploadedFiles) + 2, Len(@))])

\* r2Client.send(command) rejects: the throw leaves the loop for the catch
AfterPutRejected(locals) ==
    /\ response' = UploadFailure("put failed")
    /\ pc' = "done"
    /\ UNCHANGED <<up, calls>>

\* r2Client.send(command) resolves: the object is stored, the loop goes on
UploadPutResolve ==
    /\ Uploading /\ pc = "awaitPut"
    /\ LET command == up.sent[Len(up.sent)]
           file == up.files[Len(up.uploadedFiles) + 1]
       IN  /\ bucket' = PutObject(bucket, command, up.now)
           /\ ContinueUpload([up EXCEPT !.uploadedFiles = Append(@,
                    [filename |-> file.filename, objectKey |-> command.Key,
                     size |-> Len(FileData(file))])])
    /\ UNCHANGED <<served, config, handler, event, faults, gal, pre>>

\* r2Client.send(command) rejects
UploadPutReject ==
    /\ Uploading /\ pc = "awaitPut"
    /\ faults' = faults \cup {"PutObject"}
    /\ AfterPutRejected(up)
    /\ UNCHANGED <<served, config, bucket, handler, event, gal, pre>>

InitPush ==
    /\ config \in Configs
    /\ bucket \in PushBuckets
    /\ Idle

NextPush ==
    \/ \E method \in Methods, contentType \in ContentTypes,
          request \in PushRequests \cup OddRequests :
              UploadStart(method, contentType, request)
    \/ \E method \in Methods, contentType \in ContentTypes,
          request \in PushRequests : UploadBusboyStart(method, contentType, request)
    \/ UploadBusboyParsed
    \/ UploadBusboyParseFail
    \/ UploadPutResolve
    \/ UploadPutReject

SpecPush == InitPush /\ [][NextPush]_vars

---------------------------------------------------------------------------
(* Properties of the push-upload handlers *)

\* the invocation has decoded its payload
Decoded == Uploading /\ DOMAIN up # {}

\* C7: a push request with a multipart content type whose decoded payload
\* holds no file part is answered 400 "No files uploaded" and writes nothing,
\* in the handler with the inline parser and in the one with busboy.
C7_NoFilesIsValidationError ==
    (/\ Decoded /\ pc = "done"
     /\ includes(event.contentType, <<"m","u","l","t","i","p","a","r","t","/","f","o","r","m","-","d","a","t","a">>)
     /\ up.files = << >>) =>
        /\ response.statusCode = 400
        /\ response.body.error = "No files uploaded"
        /\ "PutObject" \notin calls
        /\ bucket = << >>

\* the last of the writes 1 .. i that went to the key of write i
LastWriter(i, n) ==
    Max({j \in 1..n : up.sent[j].Key = up.sent[i].Key})

\* C8: the files are written one at a time in parsed order; when the k-th
\* write fails the request ends with the 500 error response, the k-1 objects
\* already written are in storage and no write follows the k-th.
C8_WritesStopAtFirstFailure ==
    Decoded =>
        LET k == Len(up.sent)
            written == Len(up.uploadedFiles)
        IN  /\ k <= Len(up.files)
            /\ \A i \in 1..k :
                /\ up.sent[i].op = "PutObject"
                /\ up.sent[i].Body = FileData(up.files[i])
            /\ \A i \in 1..written :
                /\ up.uploadedFiles[i].filename = up.files[i].filename
                /\ up.uploadedFiles[i].objectKey = up.sent[i].Key
                /\ \E j \in 1..Len(bucket) :
                    /\ bucket[j].Key = up.sent[i].Key
                    /\ bucket[j].Body = up.sent[LastWriter(i, written)].Body
            /\ pc = "awaitPut" => written = k - 1
            /\ "PutObject" \in faults =>
                /\ pc = "done"
                /\ response.statusCode = 500
                /\ written = k - 1
                /\ Len(bucket) <= k - 1

\* C8 witness: of three files the first is stored, the second write failed
\* and the third was never sent
C8_Witness ==
    /\ Decoded
    /\ "PutObject" \in faults
    /\ Len(up.files) = 3
    /\ Len(up.sent) = 2
    /\ Len(bucket) = 1

\* the positions (1-based) at which pat occurs in body
Occurrences(body, pat) ==
    {p \in 1..Len(body) :
        /\ p + Len(pat) - 1 <= Len(body)
        /\ \A i \in 1..Len(pat) : body[p + i - 1] = pat[i]}

\* the i-th smallest member of a set of numbers
NthSmallest(set, i) ==
    CHOOSE x \in set : Cardinality({y \in set : y < x}) = i - 1

\* the segments between consecutive occurrences of pat in body
Delimited(body, pat) ==
    LET occ == Occurrences(body, pat)
        n == Cardinality(occ)
    IN  [i \in 1..(IF n = 0 THEN 0 ELSE n - 1) |->
            SubSeq(body, NthSmallest(occ, i) + Len(pat),
                   NthSmallest(occ, i + 1) - 1)]

\* the delimiter the content type of the request announces
Delimiter == BoundaryBuffer(BoundaryOf(event.contentType))

\* the inline parser has decoded the body of the request
InlineDecoded ==
    /\ handler = "upload" /\ DOMAIN up # {}
    /\ includes(event.contentType, <<"m","u","l","t","i","p","a","r","t","/","f","o","r","m","-","d","a","t","a">>)

\* C9: parseMultipart raises nothing when the last occurrence of the
\* delimiter has no closing pair: its result is that of the parts delimited
\* by consecutive occurrences, in order, the bytes after the last occurrence
\* dropped; with no or one occurrence the file list is empty and the
\* contributor the default.
C9_LenientTruncation ==
    InlineDecoded =>
        LET segments == Delimited(event.body, Delimiter)
            expected == parseParts([files |-> << >>,
                                    contributor |-> DefaultContributor], segments)
        IN  /\ up.files = expected.files
            /\ up.contributorName = expected.contributor
            /\ Cardinality(Occurrences(event.body, Delimiter)) <= 1 =>
                /\ up.files = << >>
                /\ up.contributorName = <<"M","e","m","o","r","i","a","l","_","G","u","e","s","t">>
            /\ (pc = "done" /\ faults = {}) => response.statusCode = 200

\* C9 witness: a body of three parts cut before its closing delimiter, the
\* third part a file: the two parts before it are returned
C9_Witness ==
    /\ InlineDecoded
    /\ event.form # Null /\ ~event.complete
    /\ Len(event.form) = 3
    /\ event.form[1].kind = "file" /\ event.form[2].kind = "field"
    /\ event.form[3].kind = "file"
    /\ Len(up.files) = 1
    /\ up.contributorName = <<"A","l">>

\* the request is a complete encoding of a form under the announced boundary
RoundTrip ==
    /\ InlineDecoded
    /\ BoundaryOf(event.contentType) = Boundary
    /\ event.complete

\* the parts of a kind, in order
RECURSIVE PartsOfKind(_, _)
PartsOfKind(form, kind) ==
    IF form = << >> THEN << >>
    ELSE (IF Head(form).kind = kind THEN <<Head(form)>> ELSE << >>)
         \o PartsOfKind(Tail(form), kind)

\* the decoded files are the encoded ones, in order and byte for byte
FilesBack ==
    LET sent == PartsOfKind(event.form, "file")
    IN  up.files = [i \in 1..Len(sent) |->
                        [filename |-> sent[i].filename,
                         contentType |-> sent[i].mimeType,
                         data |-> sent[i].bytes]]

\* v without its leading and trailing white space
Stripped(v) ==
    LET dark == {i \in 1..Len(v) : v[i] \notin {" ", "\r", "\n"}}
    IN  IF dark = {} THEN << >> ELSE SubSeq(v, Min(dark), Max(dark))

\* the contributor the fields of a form name: the stripped value of the
\* last field named contributor, the default if there is none or it is blank
ContributorOf(form) ==
    LET named == {i \in 1..Len(form) :
                    form[i].kind = "field" /\ form[i].name = <<"c","o","n","t","r","i","b","u","t","o","r">>}
    IN  IF named = {} \/ Stripped(form[Max(named)].value) = << >>
        THEN <<"M","e","m","o","r","i","a","l","_","G","u","e","s","t">>
        ELSE Stripped(form[Max(named)].value)

OneLine(text) == \A i \in 1..Len(text) : text[i] \notin {"\r", "\n"}

\* text a quoted header attribute carries unchanged: one line, no double quote
Plain(text) == OneLine(text) /\ \A i \in 1..Len(text) : text[i] # "\""

\* the names and filenames of the form are plain, its content types are
\* one line and every file has a filename
HeaderSafe(form) ==
    \A i \in 1..Len(form) :
        /\ Plain(form[i].name)
        /\ form[i].kind = "file" =>
            /\ form[i].filename # << >>
            /\ Plain(form[i].filename)
            /\ OneLine(form[i].mimeType)

\* the content type of the file part is the first thing in its headers that
\* reads as one: it is not empty, does not begin with white space, and
\* neither the part's name nor its filename holds the text "content-type:"
TypeSafe(part) ==
    /\ part.mimeType # << >>
    /\ part.mimeType[1] \notin {" ", "\r", "\n"}
    /\ ~includes(toLowerCase(part.name), <<"c","o","n","t","e","n","t","-","t","y","p","e",":">>)
    /\ ~includes(toLowerCase(part.filename), <<"c","o","n","t","e","n","t","-","t","y","p","e",":">>)

---------------------------------------------------------------------------
(* Properties of the gallery handler *)

GalleryDone == handler = "gallery" /\ pc = "done"

GallerySuccess ==
    /\ GalleryDone
    /\ response.statusCode = 200
    /\ "photos" \in DOMAIN response.body

\* C3: the enumeration passes each page's continuation marker to the next
\* request and goes on until the service reports none; what it has
\* accumulated is at every moment the concatenation of the pages served so
\* far, and once the loop has ended it is the whole listing, each object once.
C3_PaginationAccumulatesAllPages ==
    /\ (handler = "gallery" /\ pc = "awaitList") =>
        /\ gal.allObjects = SubSeq(Listing, 1, Len(gal.allObjects))
        /\ gal.listCommand.ContinuationToken =
              IF gal.allObjects = << >> THEN Null
              ELSE <<Len(gal.allObjects) + 1>>
        /\ gal.allObjects # << >> => Len(gal.allObjects) < Len(bucket)
    /\ (handler = "gallery" /\ pc = "awaitSigns") => gal.allObjects = Listing

\* C3 witness: the loop has ended after more than one page and holds a
\* listing of three objects
C3_Witness ==
    /\ handler = "gallery" /\ pc = "awaitSigns"
    /\ "ListObjectsV2 continued" \in calls
    /\ Len(gal.allObjects) = 3

\* C4: a gallery request that met a failing page request or a failing
\* issuance ends with the 500 error response, which holds no photos; a
\* success response is given only when no request failed, every page was
\* fetched and every sampled item was signed.
C4_NoPartialGallery ==
    GalleryDone =>
        /\ faults # {} =>
            /\ response.statusCode = 500
            /\ response.body.error = "Failed to fetch gallery"
            /\ "photos" \notin DOMAIN response.body
        /\ GallerySuccess =>
            /\ faults = {}
            /\ gal.allObjects = Listing
            /\ gal.pending = {}
            /\ Len(response.body.photos) =
                  Min({SampleSize, Len(filterMedia(Listing))})

\* C4 witness: the second page request failed after the first page had
\* arrived; and an issuance failed after another had succeeded
C4_Witness ==
    /\ GalleryDone
    /\ response.statusCode = 500
    /\ \/ /\ faults = {"ListObjectsV2"}
          /\ gal.allObjects # << >>
       \/ /\ faults = {"getSignedUrl"}
          /\ \E i \in 1..Len(gal.photos) : gal.photos[i] # Null

\* C5: a success response holds at most 50 photos, as many as
\* min(50, number of listed objects that pass the media filter), and its
\* total is the number of photos.
C5_AtMostFiftyPhotos ==
    GallerySuccess =>
        /\ Len(response.body.photos) <= 50
        /\ Len(response.body.photos) = Min({50, Len(filterMedia(Listing))})
        /\ response.body.total = Len(response.body.photos)

\* C5 witness: more than 50 media objects are listed and 50 are returned
C5_Witness ==
    /\ GallerySuccess
    /\ Len(filterMedia(Listing)) > 50
    /\ Len(response.body.photos) = 50

AllowedSuffixes ==
    {<<".","j","p","g">>, <<".","j","p","e","g">>, <<".","p","n","g">>, <<".","g","i","f">>, <<".","w","e","b","p">>, <<".","h","e","i","c">>,
     <<".","h","e","i","f">>, <<".","m","p","4">>, <<".","m","o","v">>, <<".","w","e","b","m">>}

HasSuffix(k, suffix) ==
    /\ Len(k) >= Len(suffix)
    /\ \A i \in 1..Len(suffix) : k[Len(k) - Len(suffix) + i] = suffix[i]

ContainsManifest(k) ==
    \E i \in 1..Len(k) :
        i + 7 <= Len(k) /\ SubSeq(k, i, i + 7) = <<"m","a","n","i","f","e","s","t">>

\* C6: every photo of a success response has a key that, lowercased, ends
\* with an allow-listed media extension, does not start with '_' and does
\* not contain 'manifest'.
C6_OnlyMediaKeys ==
    GallerySuccess =>
        \A n \in 1..Len(response.body.photos) :
            LET k == toLowerCase(response.body.photos[n].key)
            IN  /\ \E suffix \in AllowedSuffixes : HasSuffix(k, suffix)
                /\ k[1] # "_"
                /\ ~ContainsManifest(k)

\* C6 witness: the bucket holds a hidden image and a manifest image, and
\* the response holds photos
C6_Witness ==
    /\ GallerySuccess
    /\ response.body.photos # << >>
    /\ \E i, j \in 1..Len(bucket) :
        /\ bucket[i].Key = <<"_","h",".","p","n","g">>
        /\ bucket[j].Key = <<"M","a","n","i","f","e","s","t",".","p","n","g">>

\* C14: in a success response the photos are the first min(50, n) entries
\* of the shuffled filtered list, in that order, whatever the order the
\* concurrent issuances completed in, and each item's url is the credential
\* issued for the item's own key.
C14_PhotosKeepShuffleOrder ==
    GallerySuccess =>
        LET photos == response.body.photos
            n == Len(gal.shuffledFiles)
        IN  /\ Len(photos) = IF n < 50 THEN n ELSE 50
            /\ \A i \in 1..Len(photos) :
                /\ photos[i].key = gal.shuffledFiles[i].Key
                /\ photos[i].url.command = GetObjectCommand(photos[i].key)
                /\ photos[i].size = gal.shuffledFiles[i].Size
                /\ photos[i].lastModified = gal.shuffledFiles[i].LastModified

\* a success response with two photos or more whose issuances completed
\* out of order, for a shuffle that moved the listing
C14_Witness ==
    /\ GallerySuccess
    /\ gal.overtaken
    /\ Len(response.body.photos) >= 2
    /\ response.body.photos[1].key # response.body.photos[2].key
    /\ gal.shuffledFiles # filterMedia(gal.allObjects)

---------------------------------------------------------------------------
(* The three flows together *)

\* a bucket whose objects were written on different days
DatedBucket ==
    <<Object(<<"M","a","n","i","f","e","s","t",".","p","n","g">>, <<"x","y">>, <<"i","m","a","g","e","/","p","n","g">>, <<"2","0","2","5","-","1","2","-","2","0">>),
      Object(<<"M","e","m","o","r","i","a","l","_","G","u","e","s","t","_","U","P","L","O","A","D","S","/","a","b","c","1","2","3","_","a",".","p","n","g">>, <<"x","y">>, <<"i","m","a","g","e","/","p","n","g">>,
             <<"2","0","2","5","-","1","2","-","2","6","T","0","8",":","0","0",":","0","0",".","0","0","0","Z">>),
      Object(<<"_","h",".","p","n","g">>, <<"x","y">>, <<"i","m","a","g","e","/","p","n","g">>, <<"2","0","2","5","-","1","2","-","2","6">>),
      Object(<<"n",".","t","x","t">>, <<"x","y">>, <<"t","e","x","t","/","p","l","a","i","n">>, <<"2","0","2","5","-","1","2","-","2","7">>)>>

\* an invocation of any of the handlers
Init ==
    /\ config \in Configs
    /\ bucket \in {<< >>, DatedBucket}
    /\ Idle

Next ==
    \/ NextGallery
    \/ NextGalleryNewest
    \/ PresignSteps
    \/ NextPresignClock
    \/ NextPush

Spec == Init /\ [][Next]_vars

---------------------------------------------------------------------------
(* Properties of the configuration check *)

\* the method the invoked flow serves
FlowMethod ==
    IF handler \in {"gallery", "galleryNewest"} THEN "GET" ELSE "POST"

\* one of the three credentials is unset
Unset == \E name \in DOMAIN config : ~config[name]

\* the bodies of the 500 responses that report the missing configuration
ConfigurationErrors ==
    {"Server configuration error", "Storage not configured",
     "Storage not configured. Missing R2 credentials."}

\* C11: in the upload-credential, push and gallery flows, a request made
\* while the account identifier, the access key or the secret key is unset
\* is answered 500 with the configuration error before anything else of the
\* flow: nothing of the request is parsed or validated, no local is set and
\* no storage-service call (probe, list, put, sign) is made.
C11_ConfigurationCheckedFirst ==
    (handler # "idle" /\ event.httpMethod = FlowMethod /\ Unset) =>
        /\ pc = "done"
        /\ response.statusCode = 500
        /\ response.body.error \in ConfigurationErrors
        /\ calls = {} /\ faults = {}
        /\ gal = GalInit /\ pre = Null /\ up = Null

\* an upload-credential request without a filename, made while only the
\* secret key is unset, was answered with the configuration error
C11_Witness ==
    /\ handler = "presign" /\ event.httpMethod = "POST"
    /\ config.R2_ACCOUNT_ID /\ config.R2_ACCESS_KEY_ID
    /\ ~config.R2_SECRET_ACCESS_KEY
    /\ event.body.kind = "object" /\ event.body.filename = Null
    /\ response = Reply(500, [error |-> "Storage not configured"])

=============================================================================
